---- MODULE Spec2Model ----
(***************************************************************************)
(* Exchange-rates ETL: the batch CLI form (exchange_rates.py), the         *)
(* scheduled-task form (the exchange_rates DAG with ExchangeApiOperator),  *)
(* and the transformer process_data both forms share.                      *)
(***************************************************************************)
EXTENDS Integers, Sequences, FiniteSets, TLC

(* ------------------------------- bounds -------------------------------- *)
\* Rates of an API response are drawn from -1 .. MaxRate.
MaxRate == 1
\* A rate mapping of the transformer specification has at most MaxEntries entries.
MaxEntries == 2
\* Calendar dates are 1 .. MaxDates (consecutive days).
MaxDates == 2

(* ------------------------------ data model ----------------------------- *)
\* A currency key that is None/NaN (what pandas' isna() reports).
NULL == "<null>"
\* The currency keys a response may carry: a code, the empty string, a null.
Keys == {"EUR", "GBP", "", NULL}
Rates == -1 .. MaxRate
Dates == 1 .. MaxDates

\* Python's None for a dict or a DataFrame result.
NoneDict == [none |-> TRUE, items |-> << >>]
NoneFrame == [none |-> TRUE, columns |-> << >>, rows |-> << >>]
Dict(items) == [none |-> FALSE, items |-> items]

\* Ordered dicts (insertion order, distinct keys) of at most n entries.
RECURSIVE DictItems(_)
DictItems(n) ==
    IF n = 0 THEN {<< >>}
    ELSE LET shorter == DictItems(n - 1)
         IN shorter \cup
            {Append(s, <<k, v>>) :
                s \in {t \in shorter : Len(t) = n - 1},
                k \in Keys, v \in Rates}
DistinctKeys(items) ==
    \A i, j \in 1 .. Len(items) : i # j => items[i][1] # items[j][1]
Mappings(n) == {s \in DictItems(n) : DistinctKeys(s)}

(* ------------------------------ DataFrame ------------------------------ *)
\* pd.DataFrame(rows, columns=cols)
DataFrame(rows, cols) == [none |-> FALSE, columns |-> cols, rows |-> rows]
\* Mutant of AnyNegative: .all() written for .any().
AnyNegative_All(df, col) ==
    LET c == CHOOSE i \in 1 .. Len(df.columns) : df.columns[i] = col
    IN \A r \in 1 .. Len(df.rows) : df.rows[r][c] < 0
\* (df[col] < 0).any()
AnyNegative(df, col) ==
    LET c == CHOOSE i \in 1 .. Len(df.columns) : df.columns[i] = col
    IN \E r \in 1 .. Len(df.rows) : df.rows[r][c] < 0
\* Mutant of AnyNa: the check compares with '' and so misses None.
AnyNa_EmptyString(df, col) ==
    LET c == CHOOSE i \in 1 .. Len(df.columns) : df.columns[i] = col
    IN \E r \in 1 .. Len(df.rows) : df.rows[r][c] = ""
\* (df[col].isna()).any(): isna is true of None/NaN only, not of ''.
AnyNa(df, col) ==
    LET c == CHOOSE i \in 1 .. Len(df.columns) : df.columns[i] = col
    IN \E r \in 1 .. Len(df.rows) : df.rows[r][c] = NULL
\* df[col] = scalar: a new last column holding the scalar in every row.
SetColumn(df, col, value) ==
    [df EXCEPT !.columns = Append(@, col),
               !.rows = [r \in 1 .. Len(@) |-> Append(@[r], value)]]
\* Mutant of SelectColumns: the reordering is lost, the frame keeps its columns.
SelectColumns_Unordered(df, cols) == df
\* df[[c1, ..., cn]]: the named columns, in the order named.
SelectColumns(df, cols) ==
    LET idx == [k \in 1 .. Len(cols) |->
                   CHOOSE i \in 1 .. Len(df.columns) : df.columns[i] = cols[k]]
    IN [df EXCEPT !.columns = cols,
                  !.rows = [r \in 1 .. Len(@) |->
                               [k \in 1 .. Len(cols) |-> @[r][idx[k]]]]]
\* df.to_csv(index=False): the header row, then the data rows.
to_csv(df) == <<df.columns>> \o df.rows

base_currency == "USD"
CanonicalColumns == <<"date", "base", "currency", "rate", "last_update">>

(* ----------------------------- transformer ----------------------------- *)
\* The frame both process_data methods build once the checks have passed.
\* rates.items() enumerates the dict in insertion order.
BuildFrame(date, items, now) ==
    LET df0 == DataFrame(items, <<"currency", "rate">>)
        df1 == SetColumn(df0, "date", date)
        df2 == SetColumn(df1, "base", base_currency)
        df3 == SetColumn(df2, "last_update", now)
    IN SelectColumns(df3, CanonicalColumns)
\* The two checks: TRUE when a ValueError is raised.
RaisesValueError(items) ==
    LET df == DataFrame(items, <<"currency", "rate">>)
    IN AnyNegative(df, "rate") \/ AnyNa(df, "currency")

\* ExchangeRates.process_data: every exception (rates is None, a ValueError)
\* is caught and logged, and the method then returns None.
process_data(date, rates, now) ==
    IF rates.none THEN NoneFrame
    ELSE IF RaisesValueError(rates.items) THEN NoneFrame
    ELSE BuildFrame(date, rates.items, now)

\* ExchangeApiOperator.process_data up to the frame: raised is TRUE when the
\* method raises AirflowException before a frame exists.
OperatorFrame(date, data, now) ==
    IF data.none \/ RaisesValueError(data.items)
    THEN [raised |-> TRUE, df |-> NoneFrame]
    ELSE [raised |-> FALSE, df |-> BuildFrame(date, data.items, now)]

(* -------------------------------- state -------------------------------- *)
VARIABLES
    entry,           \* which entry point runs: "cli", "dag" or "unit"
    pc,              \* the position of the running entry point
    bucket,          \* object storage: date prefix -> file name -> CSV lines
    tables,          \* BigQuery: table name -> [exists, rows]
    clock,           \* wall clock, read by datetime.now()
    \* batch CLI (exchange_rates.py __main__)
    dates, idx, rates, processed_data, blobs, k, load_job,
    \* scheduled-task form (the exchange_rates DAG)
    ds, task_state, folder, local_file,
    \* a direct call of the two process_data methods
    call, ret_cli, ret_op,
    \* history of the run
    bucket0, tables0, stage_log, api_log, uploads, bq_calls, listed, executed,
    raised_by        \* the call whose exception left the CLI uncaught

vars == <<entry, pc, bucket, tables, clock,
          dates, idx, rates, processed_data, blobs, k, load_job,
          ds, task_state, folder, local_file,
          call, ret_cli, ret_op,
          bucket0, tables0, stage_log, api_log, uploads, bq_calls, listed,
          executed, raised_by>>

cli_locals == <<dates, idx, rates, processed_data, blobs, k, load_job>>
dag_vars == <<ds, task_state, folder, local_file, executed>>
unit_vars == <<call, ret_cli, ret_op>>
cli_history == <<stage_log, api_log, uploads, bq_calls, listed, raised_by>>
start_state == <<bucket0, tables0>>

(* ------------------------------- storage ------------------------------- *)
\* Object names under a prefix data/{date}/, in the order list_blobs returns
\* them: the file the Sink writes, and one more file.
SinkFile == "exchange_rates_{date}.csv"
ExtraFile == "extra.csv"
ListOrder == <<SinkFile, ExtraFile>>
Files == {ListOrder[i] : i \in 1 .. Len(ListOrder)}
Absent == << >>
EmptyPrefix == [f \in Files |-> Absent]

\* date.replace('-', ''): Loader variant B names its table without dashes,
\* the DAG's load task keeps them.
date_index(date) == [date |-> date, dashes |-> FALSE]
TableB(date) == date_index(date)
TableA(date) == [date |-> date, dashes |-> TRUE]
TableNames == {TableA(d) : d \in Dates} \cup {TableB(d) : d \in Dates}
NoTable == [exists |-> FALSE, rows |-> << >>]

\* What an earlier run left behind: a CSV written at clock 0, and a table
\* loaded from it.
OldCsv(date) == to_csv(BuildFrame(date, <<<<"EUR", 1>>>>, 0))
OldTable(date) == [exists |-> TRUE, rows |-> Tail(OldCsv(date))]
\* The prefix of a date an earlier run may have left: any subset of Files.
OldPrefixes(date) ==
    {[f \in Files |-> IF f \in S THEN OldCsv(date) ELSE Absent] :
        S \in SUBSET Files}

\* storage_client.list_blobs(prefix=data/{date}/)
list_blobs(date) ==
    LET Present(f) == bucket[date][f] # Absent
    IN SelectSeq(ListOrder, Present)

\* A finished load job: skip_leading_rows=1, rows appended (WRITE_APPEND) or
\* replacing the table (WRITE_TRUNCATE); the table is created when missing.
LoadedTable(table, csv, disposition) ==
    [exists |-> TRUE,
     rows |-> IF disposition = "WRITE_APPEND"
              THEN table.rows \o Tail(csv) ELSE Tail(csv)]

(* ------------------------------ responses ------------------------------ *)
\* What the rates API answers: a failure (not result.ok), or a rates dict.
ApiRates == {<<<<"EUR", MaxRate>>>>, <<<<"EUR", MaxRate>>, <<"GBP", -1>>>>}
HttpResponses ==
    {[ok |-> FALSE, rates |-> << >>]} \cup
    {[ok |-> TRUE, rates |-> m] : m \in ApiRates}
NotFetched == [ok |-> FALSE, rates |-> <<<<"-", 0>>>>]
HasNegative(items) == \E i \in 1 .. Len(items) : items[i][2] < 0

(* ------------------------------ batch CLI ------------------------------ *)
\* [date.date().isoformat() for date in pendulum.interval(s, e).range('days')]
DateRange(start_date, end_date) ==
    [i \in 1 .. (end_date - start_date + 1) |-> start_date + i - 1]
InRange(d) == \E i \in 1 .. Len(dates) : dates[i] = d
date == dates[idx]

\* ExchangeRates.get_data: a response that is not ok raises inside the try,
\* the except logs it and the method returns None.
get_data(response) ==
    IF ~response.ok THEN NoneDict ELSE Dict(response.rates)

\* The for loop's step after the last statement of its body.
NextDate ==
    IF idx < Len(dates)
    THEN idx' = idx + 1 /\ pc' = "get_data"
    ELSE idx' = idx /\ pc' = "done"

\* An exception no try catches: the interpreter leaves the loop and exits.
Uncaught(failed_call) ==
    /\ pc' = "raised"
    /\ raised_by' = failed_call
    /\ idx' = idx

CliGetData ==
    /\ entry = "cli" /\ pc = "get_data"
    /\ \E response \in HttpResponses :
          /\ rates' = get_data(response)
          /\ api_log' = [api_log EXCEPT ![date] = response]
    /\ stage_log' = Append(stage_log, <<"get_data", date>>)
    /\ pc' = "process_data"
    /\ UNCHANGED <<entry, bucket, tables, clock, dates, idx, processed_data,
                   blobs, k, load_job, dag_vars, unit_vars, start_state,
                   uploads, bq_calls, listed, raised_by>>

CliProcessData ==
    /\ entry = "cli" /\ pc = "process_data"
    /\ processed_data' = process_data(date, rates, clock)
    /\ clock' = clock + 1
    /\ stage_log' = Append(stage_log, <<"process_data", date>>)
    /\ pc' = "load_file_to_bucket"
    /\ UNCHANGED <<entry, bucket, tables, dates, idx, rates, blobs, k,
                   load_job, dag_vars, unit_vars, start_state, api_log,
                   uploads, bq_calls, listed, raised_by>>

\* ExchangeRates.load_file_to_bucket: data.to_csv raises on None, and
\* upload_from_string may raise; both are caught and logged.
CliLoadFileToBucket ==
    /\ entry = "cli" /\ pc = "load_file_to_bucket"
    /\ \/ /\ ~processed_data.none
          /\ bucket' = [bucket EXCEPT ![date][SinkFile] = to_csv(processed_data)]
          /\ uploads' = Append(uploads, date)
       \/ /\ ~processed_data.none
          /\ UNCHANGED <<bucket, uploads>>
       \/ /\ processed_data.none
          /\ UNCHANGED <<bucket, uploads>>
    /\ stage_log' = Append(stage_log, <<"load_file_to_bucket", date>>)
    /\ pc' = "from_gcs_to_biguery"
    /\ UNCHANGED <<entry, tables, clock, dates, idx, rates, processed_data,
                   blobs, k, load_job, dag_vars, unit_vars, start_state,
                   api_log, bq_calls, listed, raised_by>>

\* job_config: the write disposition of every load job of Loader variant B.
write_disposition == "WRITE_APPEND"
\* A call on the BigQuery client or on a load job, as the run issues it: the
\* table is exchange_rates_{date_index}, the uri gs://bucket/data/{date}/{file}.
BqCall(op, d, file, disposition) ==
    [op |-> op, table |-> TableB(d), date |-> d, file |-> file,
     disposition |-> disposition]

\* from_gcs_to_biguery, lines 100-114: the schema is downloaded and the job
\* configuration built; nothing here is inside a try.
LoaderSchema ==
    /\ entry = "cli" /\ pc = "from_gcs_to_biguery"
    /\ stage_log' = Append(stage_log, <<"from_gcs_to_biguery", date>>)
    /\ \/ pc' = "list_blobs" /\ UNCHANGED <<idx, raised_by>>
       \/ Uncaught("download_as_string")
    /\ UNCHANGED <<entry, bucket, tables, clock, dates, rates, processed_data,
                   blobs, k, load_job, dag_vars, unit_vars, start_state,
                   api_log, uploads, bq_calls, listed>>

\* Mutant of LoaderList: the delete is issued whatever the listing holds.
LoaderList_AlwaysDelete ==
    /\ entry = "cli" /\ pc = "list_blobs"
    /\ blobs' = list_blobs(date)
    /\ listed' = [listed EXCEPT ![date] =
                      [done |-> TRUE, blobs |-> list_blobs(date)]]
    /\ pc' = "delete_table"
    /\ UNCHANGED <<entry, bucket, tables, clock, dates, idx, rates,
                   processed_data, k, load_job, dag_vars, unit_vars,
                   start_state, stage_log, api_log, uploads, bq_calls,
                   raised_by>>
\* Lines 116-118: the listing and the branch on it.
LoaderList ==
    /\ entry = "cli" /\ pc = "list_blobs"
    /\ \/ /\ blobs' = list_blobs(date)
          /\ listed' = [listed EXCEPT ![date] =
                            [done |-> TRUE, blobs |-> list_blobs(date)]]
          /\ IF Len(list_blobs(date)) > 0
             THEN pc' = "delete_table" /\ idx' = idx
             ELSE NextDate
          /\ UNCHANGED raised_by
       \/ /\ Uncaught("list_blobs")
          /\ UNCHANGED <<blobs, listed>>
    /\ UNCHANGED <<entry, bucket, tables, clock, dates, rates, processed_data,
                   k, load_job, dag_vars, unit_vars, start_state, stage_log,
                   api_log, uploads, bq_calls>>

\* Lines 120-121: delete_table(bq_table, not_found_ok=True).
LoaderDelete ==
    /\ entry = "cli" /\ pc = "delete_table"
    /\ bq_calls' = Append(bq_calls, BqCall("delete_table", date, "", ""))
    /\ \/ /\ tables' = [tables EXCEPT ![TableB(date)] = NoTable]
          /\ k' = 1
          /\ pc' = "load_table_from_uri"
          /\ UNCHANGED <<idx, raised_by>>
       \/ /\ Uncaught("delete_table")
          /\ UNCHANGED <<tables, k>>
    /\ UNCHANGED <<entry, bucket, clock, dates, rates, processed_data, blobs,
                   load_job, dag_vars, unit_vars, start_state, stage_log,
                   api_log, uploads, listed>>

\* Lines 123-125: the next blob's load job is issued.
LoaderLoad ==
    /\ entry = "cli" /\ pc = "load_table_from_uri"
    /\ k <= Len(blobs)
    /\ bq_calls' = Append(bq_calls,
          BqCall("load_table_from_uri", date, blobs[k], write_disposition))
    /\ \/ /\ load_job' = blobs[k]
          /\ pc' = "result"
          /\ UNCHANGED <<idx, raised_by>>
       \/ /\ Uncaught("load_table_from_uri")
          /\ UNCHANGED load_job
    /\ UNCHANGED <<entry, bucket, tables, clock, dates, rates, processed_data,
                   blobs, k, dag_vars, unit_vars, start_state, stage_log,
                   api_log, uploads, listed>>

\* Mutant of LoaderResult: the Loader returns after the first job.
LoaderResult_ReturnsAfterFirst ==
    /\ entry = "cli" /\ pc = "result"
    /\ bq_calls' = Append(bq_calls, BqCall("result", date, load_job, ""))
    /\ tables' = [tables EXCEPT ![TableB(date)] =
                      LoadedTable(@, bucket[date][load_job], write_disposition)]
    /\ load_job' = ""
    /\ k' = k + 1
    /\ NextDate
    /\ UNCHANGED <<entry, bucket, clock, dates, rates, processed_data, blobs,
                   dag_vars, unit_vars, start_state, stage_log, api_log,
                   uploads, listed, raised_by>>
\* Line 126: load_job.result() blocks until the job is done and raises when
\* the job failed; then the for loop over blobs steps.
LoaderResult ==
    /\ entry = "cli" /\ pc = "result"
    /\ bq_calls' = Append(bq_calls, BqCall("result", date, load_job, ""))
    /\ \/ /\ tables' = [tables EXCEPT ![TableB(date)] =
                            LoadedTable(@, bucket[date][load_job], write_disposition)]
          /\ load_job' = ""
          /\ k' = k + 1
          /\ IF k < Len(blobs)
             THEN pc' = "load_table_from_uri" /\ idx' = idx
             ELSE NextDate
          /\ UNCHANGED raised_by
       \/ /\ Uncaught("result")
          /\ UNCHANGED <<tables, load_job, k>>
    /\ UNCHANGED <<entry, bucket, clock, dates, rates, processed_data, blobs,
                   dag_vars, unit_vars, start_state, stage_log, api_log,
                   uploads, listed>>

NotListed == [done |-> FALSE, blobs |-> << >>]

InitCli ==
    /\ entry = "cli"
    /\ pc = "get_data"
    /\ \E s \in Dates, e \in Dates : s <= e /\ dates = DateRange(s, e)
    /\ idx = 1
    /\ rates = NoneDict /\ processed_data = NoneFrame
    /\ blobs = << >> /\ k = 1 /\ load_job = ""
    /\ bucket \in [Dates -> UNION {OldPrefixes(d) : d \in Dates}]
    /\ \A d \in Dates :
          IF InRange(d) THEN bucket[d] \in OldPrefixes(d)
          ELSE bucket[d] = [EmptyPrefix EXCEPT ![SinkFile] = OldCsv(d)]
    /\ tables \in [TableNames -> {NoTable} \cup {OldTable(d) : d \in Dates}]
    /\ \A d \in Dates :
          /\ tables[TableA(d)] = NoTable
          /\ IF InRange(d) THEN tables[TableB(d)] \in {NoTable, OldTable(d)}
             ELSE tables[TableB(d)] = OldTable(d)
    /\ clock = 1
    /\ bucket0 = bucket /\ tables0 = tables
    /\ stage_log = << >> /\ uploads = << >> /\ bq_calls = << >>
    /\ api_log = [d \in Dates |-> NotFetched]
    /\ listed = [d \in Dates |-> NotListed]
    /\ raised_by = ""
    /\ ds = 1 /\ task_state = << >> /\ folder = FALSE /\ local_file = Absent
    /\ executed = << >>
    /\ call = [date |-> 1, rates |-> NoneDict, now |-> 0]
    /\ ret_cli = NoneFrame /\ ret_op = [raised |-> FALSE, df |-> NoneFrame]

NextCli ==
    \/ CliGetData
    \/ CliProcessData
    \/ CliLoadFileToBucket
    \/ LoaderSchema
    \/ LoaderList
    \/ LoaderDelete
    \/ LoaderLoad
    \/ LoaderResult

(* ------------------------- scheduled-task form ------------------------- *)
\* start >> folder_path >> report_path >> upload_data_to_gcs >>
\*     load_from_gcp_to_bq >> clear_folder >> end
Wiring == <<"start", "create_folder", "collect_data", "upload_data_to_gcs",
            "load_from_gcp_to_bq", "clear_report_folder", "end">>
Tasks == {Wiring[i] : i \in 1 .. Len(Wiring)}
Upstream(t) ==
    {Wiring[i] : i \in {j \in 1 .. Len(Wiring) - 1 : Wiring[j + 1] = t}}
\* Mutant of trigger_rule: every task runs once its upstream tasks are done.
trigger_rule_all_done(t) == "all_done"
\* No task of the DAG is given a trigger_rule, so each has the default.
trigger_rule(t) == "all_success"

\* The scheduler runs a task whose trigger rule its upstream tasks satisfy.
Ready(t) ==
    /\ entry = "dag"
    /\ task_state[t] = "none"
    /\ IF trigger_rule(t) = "all_done"
       THEN \A u \in Upstream(t) : task_state[u] # "none"
       ELSE \A u \in Upstream(t) : task_state[u] = "success"
\* Under all_success a failed or upstream_failed upstream task makes the
\* scheduler mark the task upstream_failed without running it.
Blocked(t) ==
    /\ entry = "dag"
    /\ task_state[t] = "none"
    /\ trigger_rule(t) # "all_done"
    /\ \E u \in Upstream(t) : task_state[u] \in {"failed", "upstream_failed"}

Finish(t, state) ==
    /\ task_state' = [task_state EXCEPT ![t] = state]
    /\ executed' = Append(executed, t)

\* ExchangeApiOperator.get_data: raises AirflowException unless result.ok.
OperatorGetDataRaises(response) == ~response.ok

DagUnchanged ==
    UNCHANGED <<entry, pc, clock, cli_locals, ds, unit_vars, start_state,
                stage_log, uploads, bq_calls, listed, raised_by>>

DagStart ==
    /\ Ready("start")
    /\ Finish("start", "success")
    /\ UNCHANGED <<bucket, tables, folder, local_file, api_log>>
    /\ DagUnchanged

\* create_folder: os.makedirs may raise.
DagCreateFolder ==
    /\ Ready("create_folder")
    /\ \/ folder' = TRUE /\ Finish("create_folder", "success")
       \/ folder' = folder /\ Finish("create_folder", "failed")
    /\ UNCHANGED <<bucket, tables, local_file, api_log>>
    /\ DagUnchanged

\* ExchangeApiOperator.execute: get_data, then process_data, which writes the
\* CSV into the folder; every exception fails the task.
DagCollectData ==
    /\ Ready("collect_data")
    /\ \E response \in HttpResponses :
          /\ api_log' = [api_log EXCEPT ![ds] = response]
          /\ IF OperatorGetDataRaises(response)
             THEN /\ Finish("collect_data", "failed")
                  /\ UNCHANGED local_file
             ELSE LET r == OperatorFrame(ds, Dict(response.rates), clock)
                  IN IF r.raised
                     THEN /\ Finish("collect_data", "failed")
                          /\ UNCHANGED local_file
                     ELSE \/ /\ local_file' = to_csv(r.df)
                             /\ Finish("collect_data", "success")
                          \/ /\ UNCHANGED local_file
                             /\ Finish("collect_data", "failed")
    /\ UNCHANGED <<bucket, tables, folder>>
    /\ UNCHANGED <<entry, pc, cli_locals, ds, unit_vars, start_state,
                   stage_log, uploads, bq_calls, listed, raised_by>>
    /\ clock' = clock + 1

\* LocalFilesystemToGCSOperator: src is the file collect_data returned, dst
\* the prefix data/{ds}/, so the object takes the file's name.
DagUpload ==
    /\ Ready("upload_data_to_gcs")
    /\ \/ /\ local_file # Absent
          /\ bucket' = [bucket EXCEPT ![ds][SinkFile] = local_file]
          /\ Finish("upload_data_to_gcs", "success")
       \/ /\ UNCHANGED bucket
          /\ Finish("upload_data_to_gcs", "failed")
    /\ UNCHANGED <<tables, folder, local_file, api_log>>
    /\ DagUnchanged

\* GCSToBigQueryOperator: the one object the Sink wrote, WRITE_TRUNCATE.
DagLoad ==
    /\ Ready("load_from_gcp_to_bq")
    /\ \/ /\ bucket[ds][SinkFile] # Absent
          /\ tables' = [tables EXCEPT ![TableA(ds)] =
                            LoadedTable(@, bucket[ds][SinkFile], "WRITE_TRUNCATE")]
          /\ Finish("load_from_gcp_to_bq", "success")
       \/ /\ UNCHANGED tables
          /\ Finish("load_from_gcp_to_bq", "failed")
    /\ UNCHANGED <<bucket, folder, local_file, api_log>>
    /\ DagUnchanged

\* clear_report_folder: shutil.rmtree(folder_path, ignore_errors=True)
\* removes the folder with its files, or fails silently.
DagClearReportFolder ==
    /\ Ready("clear_report_folder")
    /\ \/ folder' = FALSE /\ local_file' = Absent
       \/ UNCHANGED <<folder, local_file>>
    /\ Finish("clear_report_folder", "success")
    /\ UNCHANGED <<bucket, tables, api_log>>
    /\ DagUnchanged

DagEnd ==
    /\ Ready("end")
    /\ Finish("end", "success")
    /\ UNCHANGED <<bucket, tables, folder, local_file, api_log>>
    /\ DagUnchanged

\* The scheduler passes over a task whose upstream has failed.
DagUpstreamFailed ==
    /\ \E t \in Tasks :
          /\ Blocked(t)
          /\ task_state' = [task_state EXCEPT ![t] = "upstream_failed"]
    /\ UNCHANGED <<bucket, tables, folder, local_file, api_log, executed>>
    /\ DagUnchanged

InitDag ==
    /\ entry = "dag"
    /\ pc = "scheduled"
    /\ ds \in Dates
    /\ task_state = [t \in Tasks |-> "none"]
    /\ folder = FALSE /\ local_file = Absent /\ executed = << >>
    /\ bucket \in [Dates -> UNION {OldPrefixes(d) : d \in Dates}]
    /\ \A d \in Dates :
          IF d = ds THEN bucket[d] \in OldPrefixes(d)
          ELSE bucket[d] = [EmptyPrefix EXCEPT ![SinkFile] = OldCsv(d)]
    /\ tables \in [TableNames -> {NoTable} \cup {OldTable(d) : d \in Dates}]
    /\ \A d \in Dates :
          /\ tables[TableB(d)] = NoTable
          /\ IF d = ds THEN tables[TableA(d)] \in {NoTable, OldTable(d)}
             ELSE tables[TableA(d)] = OldTable(d)
    /\ clock = 1
    /\ bucket0 = bucket /\ tables0 = tables
    /\ stage_log = << >> /\ uploads = << >> /\ bq_calls = << >>
    /\ api_log = [d \in Dates |-> NotFetched]
    /\ listed = [d \in Dates |-> NotListed]
    /\ raised_by = ""
    /\ dates = << >> /\ idx = 1
    /\ rates = NoneDict /\ processed_data = NoneFrame
    /\ blobs = << >> /\ k = 1 /\ load_job = ""
    /\ call = [date |-> 1, rates |-> NoneDict, now |-> 0]
    /\ ret_cli = NoneFrame /\ ret_op = [raised |-> FALSE, df |-> NoneFrame]

NextDag ==
    \/ DagStart
    \/ DagCreateFolder
    \/ DagCollectData
    \/ DagUpload
    \/ DagLoad
    \/ DagClearReportFolder
    \/ DagEnd
    \/ DagUpstreamFailed

(* ------------------- direct calls of process_data ---------------------- *)
UnitUnchanged ==
    UNCHANGED <<entry, bucket, tables, clock, cli_locals, dag_vars,
                start_state, cli_history, call>>

\* ExchangeRates.process_data(date, rates)
UnitProcessData ==
    /\ entry = "unit" /\ pc = "call"
    /\ ret_cli' = process_data(call.date, call.rates, call.now)
    /\ pc' = "operator_call"
    /\ UNCHANGED ret_op
    /\ UnitUnchanged

\* ExchangeApiOperator.process_data(result), result.json()['rates'] = rates
UnitOperatorProcessData ==
    /\ entry = "unit" /\ pc = "operator_call"
    /\ ret_op' = OperatorFrame(call.date, call.rates, call.now)
    /\ pc' = "returned"
    /\ UNCHANGED ret_cli
    /\ UnitUnchanged

InitUnit ==
    /\ entry = "unit"
    /\ pc = "call"
    /\ call \in [date : Dates,
                  rates : {NoneDict} \cup {Dict(m) : m \in Mappings(MaxEntries)},
                  now : {1}]
    /\ ret_cli = NoneFrame /\ ret_op = [raised |-> FALSE, df |-> NoneFrame]
    /\ bucket = [d \in Dates |-> EmptyPrefix]
    /\ tables = [t \in TableNames |-> NoTable]
    /\ clock = 1
    /\ bucket0 = bucket /\ tables0 = tables
    /\ stage_log = << >> /\ uploads = << >> /\ bq_calls = << >>
    /\ api_log = [d \in Dates |-> NotFetched]
    /\ listed = [d \in Dates |-> NotListed]
    /\ raised_by = ""
    /\ dates = << >> /\ idx = 1
    /\ rates = NoneDict /\ processed_data = NoneFrame
    /\ blobs = << >> /\ k = 1 /\ load_job = ""
    /\ ds = 1 /\ task_state = << >> /\ folder = FALSE /\ local_file = Absent
    /\ executed = << >>

NextUnit ==
    \/ UnitProcessData
    \/ UnitOperatorProcessData

(* ---------------------------- specification ---------------------------- *)
Init == InitCli \/ InitDag \/ InitUnit
Next == NextCli \/ NextDag \/ NextUnit
Spec == Init /\ [][Next]_vars

(* ------------------------- notions the claims use ---------------------- *)
Range(seq) == {seq[i] : i \in 1 .. Len(seq)}
IsPrefix(s, t) == Len(s) <= Len(t) /\ \A i \in 1 .. Len(s) : s[i] = t[i]
RECURSIVE Flatten(_)
Flatten(seqs) == IF seqs = << >> THEN << >> ELSE Head(seqs) \o Flatten(Tail(seqs))

\* The CLI process has ended: the loop ran out, or an exception escaped.
CliEnded == entry = "cli" /\ pc \in {"done", "raised"}
\* Every task of the DAG run has reached a final state.
DagEnded == entry = "dag" /\ \A t \in Tasks : task_state[t] # "none"
Fetched(d) == api_log[d] # NotFetched
NegativeResponse(d) == api_log[d].ok /\ HasNegative(api_log[d].rates)
Position(d) == CHOOSE i \in 1 .. Len(dates) : dates[i] = d
\* The Loader call for date d has returned to the loop.
LoaderReturned(d) ==
    /\ InRange(d)
    /\ listed[d].done
    /\ Position(d) < idx \/ pc = "done"
\* The BigQuery calls the run has issued for date d, in order.
CallsFor(d) ==
    LET ForDate(c) == c.date = d
    IN SelectSeq(bq_calls, ForDate)
\* One date's four stages, in the order of the loop body.
StagesOf(d) ==
    <<<<"get_data", d>>, <<"process_data", d>>, <<"load_file_to_bucket", d>>,
      <<"from_gcs_to_biguery", d>>>>
\* The stages of a whole run: each date of the range in turn.
StagesOfRange == Flatten([i \in 1 .. Len(dates) |-> StagesOf(dates[i])])

(* -------------------------------- claims ------------------------------- *)

\* C1: every DAG run that created the scratch folder executes
\* clear_report_folder before it ends, whatever the upstream tasks did.
C1_CleanupAlwaysExecuted ==
    (DagEnded /\ task_state["create_folder"] = "success")
        => "clear_report_folder" \in Range(executed)

\* C2: no stage failure aborts the range: when the CLI process has ended,
\* the pipeline has been started for every date of the range.
C2_EveryDateStarted ==
    CliEnded => \A i \in 1 .. Len(dates) : <<"get_data", dates[i]>> \in Range(stage_log)

\* C3: a response with a negative rate makes the transformer fail, and
\* nothing is written for that date: in the CLI the date is never uploaded
\* and its prefix stays as the run found it; in the DAG no CSV file, object
\* or table is written and the upload task never executes.
C3_NegativeRateWritesNothing ==
    /\ (entry = "unit" /\ pc = "returned" /\ HasNegative(call.rates.items))
          => ret_cli.none /\ ret_op.raised /\ ret_op.df.none
    /\ entry = "cli" =>
          \A d \in Dates : NegativeResponse(d) =>
              /\ d \notin Range(uploads)
              /\ bucket[d] = bucket0[d]
              /\ (<<"process_data", d>> \in Range(stage_log) /\ date = d)
                    => processed_data.none
    /\ (entry = "dag" /\ NegativeResponse(ds)) =>
          /\ task_state["collect_data"] = "failed"
          /\ local_file = Absent
          /\ bucket = bucket0 /\ tables = tables0
          /\ "upload_data_to_gcs" \notin Range(executed)
C3_Witness ==
    /\ entry = "cli" /\ pc = "done"
    /\ \E d \in Dates :
          /\ NegativeResponse(d)
          /\ bucket0[d][SinkFile] # Absent
          /\ <<"load_file_to_bucket", d>> \in Range(stage_log)

\* C4: a failing collect_data (API not ok, or a failure while validating or
\* writing the CSV) fails the task, and then neither upload_data_to_gcs
\* nor load_from_gcp_to_bq executes: no object and no table changes.
C4_CollectFailureStopsRun ==
    entry = "dag" =>
        /\ (Fetched(ds) /\ (~api_log[ds].ok \/ RaisesValueError(api_log[ds].rates)))
              => task_state["collect_data"] = "failed"
        /\ task_state["collect_data"] = "failed" =>
              /\ "upload_data_to_gcs" \notin Range(executed)
              /\ "load_from_gcp_to_bq" \notin Range(executed)
              /\ task_state["upload_data_to_gcs"] \in {"none", "upstream_failed"}
              /\ task_state["load_from_gcp_to_bq"] \in {"none", "upstream_failed"}
              /\ bucket = bucket0 /\ tables = tables0
C4_Witness ==
    /\ DagEnded
    /\ task_state["collect_data"] = "failed"
    /\ task_state["load_from_gcp_to_bq"] = "upstream_failed"
    /\ bucket0[ds][SinkFile] # Absent

\* The calls a Loader invocation makes for date d when all of them succeed.
C5_Expected(d) ==
    <<BqCall("delete_table", d, "", "")>> \o
    Flatten([i \in 1 .. Len(listed[d].blobs) |->
                <<BqCall("load_table_from_uri", d, listed[d].blobs[i], "WRITE_APPEND"),
                  BqCall("result", d, listed[d].blobs[i], "")>>])
\* C5: for a date whose listing is not empty, the Loader's calls are one
\* delete of exchange_rates_{date_index}, then for each listed object in
\* listing order a WRITE_APPEND load followed by the wait for its result:
\* the calls issued so far are always a prefix of that sequence, and the
\* whole of it once the Loader has returned.
C5_DeleteThenLoadsInOrder ==
    entry = "cli" =>
        \A d \in Dates : (listed[d].done /\ listed[d].blobs # << >>) =>
            /\ IsPrefix(CallsFor(d), C5_Expected(d))
            /\ LoaderReturned(d) => CallsFor(d) = C5_Expected(d)
C5_Witness ==
    /\ entry = "cli" /\ pc = "done"
    /\ \E d \in Dates :
          /\ Len(listed[d].blobs) = 2
          /\ tables0[TableB(d)].exists
          /\ Len(CallsFor(d)) = 5

\* C6: for a date whose listing is empty the Loader issues no delete and no
\* load, leaves the date's table as it was and returns without raising.
C6_EmptyListingSkipsLoad ==
    entry = "cli" =>
        \A d \in Dates : (listed[d].done /\ listed[d].blobs = << >>) =>
            /\ CallsFor(d) = << >>
            /\ tables[TableB(d)] = tables0[TableB(d)]
            /\ ~(pc = "raised" /\ date = d)
            /\ LoaderReturned(d)
C6_Witness ==
    /\ entry = "cli" /\ pc = "done"
    /\ \E d \in Dates :
          /\ listed[d].done /\ listed[d].blobs = << >>
          /\ tables[TableB(d)] = OldTable(d)

HasNullKey(items) == \E i \in 1 .. Len(items) : items[i][1] = NULL
HasEmptyKey(items) == \E i \in 1 .. Len(items) : items[i][1] = ""
C8_EachDateOnceInOrder ==
    CliEnded => stage_log = StagesOfRange
\* What holds of the loop as the code stands: the stages invoked so far are
\* that sequence cut short, and all of it when the loop ran out.
CliStagesArePrefix ==
    entry = "cli" =>
        /\ IsPrefix(stage_log, StagesOfRange)
        /\ pc = "done" => stage_log = StagesOfRange

\* A valid mapping: every rate >= 0, every currency key a non-empty string.
ValidMapping(m) ==
    /\ ~m.none
    /\ \A i \in 1 .. Len(m.items) :
          m.items[i][2] >= 0 /\ m.items[i][1] \notin {"", NULL}
\* df is the record set of the call: one row per entry, canonical columns.
C9_FrameOf(df) ==
    /\ ~df.none
    /\ df.columns = <<"date", "base", "currency", "rate", "last_update">>
    /\ Len(df.rows) = Len(call.rates.items)
    /\ \A i \in 1 .. Len(df.rows) :
          df.rows[i] = <<call.date, "USD", call.rates.items[i][1],
                         call.rates.items[i][2], call.now>>
\* C9: for a valid mapping both process_data methods produce a frame with
\* the columns date, base, currency, rate, last_update in that order and one
\* row per entry, each carrying the date, USD, the entry and the one
\* last_update value.
C9_ValidMappingFrame ==
    (entry = "unit" /\ pc = "returned" /\ ValidMapping(call.rates)) =>
        /\ C9_FrameOf(ret_cli)
        /\ ~ret_op.raised /\ C9_FrameOf(ret_op.df)
C9_Witness ==
    /\ entry = "unit" /\ pc = "returned"
    /\ ValidMapping(call.rates)
    /\ Len(call.rates.items) = 2
    /\ Len(ret_cli.rows) = 2

\* The table of date d rebuilt from the objects the run found under its prefix.
C10_Reloaded(d) ==
    [exists |-> TRUE,
     rows |-> Flatten([i \in 1 .. Len(listed[d].blobs) |->
                          Tail(bucket0[d][listed[d].blobs[i]])])]
\* C10: when the CLI process has ended, the Loader has been invoked for
\* every date of the range; for a date whose Fetch, Transform or Sink
\* failed, the Loader that has returned has deleted the table and reloaded
\* it from the objects an earlier run left under the prefix, or left it
\* untouched when there are none.
C10_LoaderForEveryDate ==
    CliEnded =>
        \A i \in 1 .. Len(dates) :
            LET d == dates[i] IN
            /\ <<"from_gcs_to_biguery", d>> \in Range(stage_log)
            /\ (d \notin Range(uploads) /\ LoaderReturned(d)) =>
                  IF \E f \in Files : bucket0[d][f] # Absent
                  THEN tables[TableB(d)] = C10_Reloaded(d)
                  ELSE tables[TableB(d)] = tables0[TableB(d)]
\* What holds of the loop as the code stands: every date whose Sink stage
\* is over gets its Loader call, and a Loader that returned after a failed
\* Fetch, Transform or Sink reloaded the table from the objects found.
CliLoaderAfterFailedStages ==
    entry = "cli" =>
        \A d \in Dates :
            /\ (pc = "done" /\ InRange(d))
                  => <<"from_gcs_to_biguery", d>> \in Range(stage_log)
            /\ (LoaderReturned(d) /\ d \notin Range(uploads)) =>
                  IF \E f \in Files : bucket0[d][f] # Absent
                  THEN tables[TableB(d)] = C10_Reloaded(d)
                  ELSE tables[TableB(d)] = tables0[TableB(d)]

====
